---- MODULE Spec2Model ----
(***************************************************************************)
(* Model of the hourly price-tracking worker (worker.py): worker() loads   *)
(* the users, spawns one task per user behind the module-level semaphore   *)
(* SEM, and each task runs process_user(): fetch_cookies, then for every   *)
(* selection session.get, fetch_price, price_match (get_latest_price, the  *)
(* decision, send_mail_async), the Items update and the history add, and a *)
(* final session.commit.                                                   *)
(***************************************************************************)
EXTENDS Integers, Sequences, FiniteSets, TLC

\* ------------------------------------------------------------------ bounds
\* worker.py:43 sets CONCURRENT_REQUESTS = 20.  The model scales the cap down
\* and keeps one user more than the cap, so that the gate is contended.
CONCURRENT_REQUESTS == 2
NumUsers == 3
\* number of worker() runs the scheduler triggers in a behaviour when the
\* users table holds at most one user; with more users a behaviour is one run
MaxCycles == 2
\* settings.EMAIL_SENT_COUNT (worker.py:38) is configuration; it ranges over 0..MaxEmailCount
MaxEmailCount == 2
\* initial budgets of the decision harness range over 0..MaxBudget
MaxBudget == 3
\* decision steps applied to one selection by the decision harness
MaxSteps == 3

Max(a, b) == IF a >= b THEN a ELSE b

\* ------------------------------------------------------------- price_match
NoRow == [none |-> TRUE]

\* Python round() of the quotient n / d (d > 0): to nearest, ties to even.
Round(n, d) ==
    LET q == n \div d
        r == n - q * d
    IN  IF 2 * r < d THEN q
        ELSE IF 2 * r > d THEN q + 1
        ELSE IF q % 2 = 0 THEN q ELSE q + 1

\* int() in place of round()
ChangePercent_truncated(max_price, selling_price, prev_price) ==
    ((max_price - selling_price) * 100) \div prev_price

\* worker.py:173-175; Round agrees with round() on the float expression for
\* every price of the model
ChangePercent(max_price, selling_price, prev_price) ==
    Round((max_price - selling_price) * 100, prev_price)

\* price_match without the email_sent_count == 0 test of line 170
price_match_no_zero_test(b, prev, cur, max_price, max_offer, esc) ==
    IF prev = NoRow
    THEN [outcome |-> "none", budget |-> b, change_percent |-> 0]
    ELSE LET b1 == IF /\ cur.selling_price < prev.selling_price
                      /\ cur.selling_price < max_price
                   THEN esc ELSE b
         IN  IF ~(cur.selling_price < max_price \/ cur.discount_percent > max_offer)
             THEN [outcome |-> "none", budget |-> b1, change_percent |-> 0]
             ELSE IF prev.selling_price = 0
             THEN [outcome |-> "raise", budget |-> b1, change_percent |-> 0]
             ELSE [outcome |-> "notify", budget |-> Max(b1 - 1, 0),
                   change_percent |->
                       ChangePercent(max_price, cur.selling_price, prev.selling_price)]

\* price_match as the unbudgeted variant: no zero test and a bare decrement
price_match_unbudgeted(b, prev, cur, max_price, max_offer, esc) ==
    IF prev = NoRow
    THEN [outcome |-> "none", budget |-> b, change_percent |-> 0]
    ELSE LET b1 == IF /\ cur.selling_price < prev.selling_price
                      /\ cur.selling_price < max_price
                   THEN esc ELSE b
         IN  IF ~(cur.selling_price < max_price \/ cur.discount_percent > max_offer)
             THEN [outcome |-> "none", budget |-> b1, change_percent |-> 0]
             ELSE IF prev.selling_price = 0
             THEN [outcome |-> "raise", budget |-> b1, change_percent |-> 0]
             ELSE [outcome |-> "notify", budget |-> b1 - 1,
                   change_percent |->
                       ChangePercent(max_price, cur.selling_price, prev.selling_price)]

\* price_match without the early return of lines 162-163: a missing previous
\* row is taken to be the Items row's initial price
price_match_no_first_run(b, prev, cur, max_price, max_offer, esc) ==
    LET p == IF prev = NoRow THEN [selling_price |-> 100] ELSE prev
        b1 == IF /\ cur.selling_price < p.selling_price
                 /\ cur.selling_price < max_price
              THEN esc ELSE b
    IN  IF ~(cur.selling_price < max_price \/ cur.discount_percent > max_offer) \/ b1 = 0
        THEN [outcome |-> "none", budget |-> b1, change_percent |-> 0]
        ELSE IF p.selling_price = 0
        THEN [outcome |-> "raise", budget |-> b1, change_percent |-> 0]
        ELSE [outcome |-> "notify", budget |-> Max(b1 - 1, 0),
              change_percent |->
                  ChangePercent(max_price, cur.selling_price, p.selling_price)]

\* price_match with offer_improved tested by >= in place of >
price_match_offer_ge(b, prev, cur, max_price, max_offer, esc) ==
    IF prev = NoRow
    THEN [outcome |-> "none", budget |-> b, change_percent |-> 0]
    ELSE LET b1 == IF /\ cur.selling_price < prev.selling_price
                      /\ cur.selling_price < max_price
                   THEN esc ELSE b
         IN  IF ~(cur.selling_price < max_price \/ cur.discount_percent >= max_offer)
                \/ b1 = 0
             THEN [outcome |-> "none", budget |-> b1, change_percent |-> 0]
             ELSE IF prev.selling_price = 0
             THEN [outcome |-> "raise", budget |-> b1, change_percent |-> 0]
             ELSE [outcome |-> "notify", budget |-> Max(b1 - 1, 0),
                   change_percent |->
                       ChangePercent(max_price, cur.selling_price, prev.selling_price)]

\* price_match without the threshold test of lines 167-169
price_match_no_threshold(b, prev, cur, max_price, max_offer, esc) ==
    IF prev = NoRow
    THEN [outcome |-> "none", budget |-> b, change_percent |-> 0]
    ELSE LET b1 == IF /\ cur.selling_price < prev.selling_price
                      /\ cur.selling_price < max_price
                   THEN esc ELSE b
         IN  IF b1 = 0
             THEN [outcome |-> "none", budget |-> b1, change_percent |-> 0]
             ELSE IF prev.selling_price = 0
             THEN [outcome |-> "raise", budget |-> b1, change_percent |-> 0]
             ELSE [outcome |-> "notify", budget |-> Max(b1 - 1, 0),
                   change_percent |->
                       ChangePercent(max_price, cur.selling_price, prev.selling_price)]

\* price_match without the reset of lines 164-166
price_match_no_reset(b, prev, cur, max_price, max_offer, esc) ==
    IF prev = NoRow
    THEN [outcome |-> "none", budget |-> b, change_percent |-> 0]
    ELSE LET b1 == b
         IN  IF ~(cur.selling_price < max_price \/ cur.discount_percent > max_offer)
                \/ b1 = 0
             THEN [outcome |-> "none", budget |-> b1, change_percent |-> 0]
             ELSE IF prev.selling_price = 0
             THEN [outcome |-> "raise", budget |-> b1, change_percent |-> 0]
             ELSE [outcome |-> "notify", budget |-> Max(b1 - 1, 0),
                   change_percent |->
                       ChangePercent(max_price, cur.selling_price, prev.selling_price)]

\* The decision of price_match, worker.py:162-176, as a function of what it
\* reads: the selection's email_sent_count b, max_price and max_offer, the
\* row of get_latest_price (NoRow when there is none), the fetched snapshot
\* and EMAIL_SENT_COUNT.  outcome is "none" (return None), "raise" (the
\* division at line 174 raises ZeroDivisionError) or "notify" (line 177 is
\* reached); budget is email_sent_count as the call leaves it.
price_match(b, prev, cur, max_price, max_offer, esc) ==
    IF prev = NoRow
    THEN [outcome |-> "none", budget |-> b, change_percent |-> 0]
    ELSE LET b1 == IF /\ cur.selling_price < prev.selling_price
                      /\ cur.selling_price < max_price
                   THEN esc ELSE b
             price_dropped == cur.selling_price < max_price
             offer_improved == cur.discount_percent > max_offer
         IN  IF ~(price_dropped \/ offer_improved) \/ b1 = 0
             THEN [outcome |-> "none", budget |-> b1, change_percent |-> 0]
             ELSE IF prev.selling_price = 0
             THEN [outcome |-> "raise", budget |-> b1, change_percent |-> 0]
             ELSE [outcome |-> "notify",
                   budget |-> Max(b1 - 1, 0),
                   change_percent |->
                       ChangePercent(max_price, cur.selling_price, prev.selling_price)]

\* ------------------------------------------------------------ configuration
Users == 1..NumUsers

\* DBUser.pincode (models.py:18): users 1 and 2 share a region
Pincode(u) == IF u <= 2 THEN "P1" ELSE "P2"

\* DBUser.selected_items (models.py:19), as item ids in load order: users 1
\* and 2 both track item A in the same region, user 1 also tracks B, and the
\* remaining users track nothing.
selected_items(u) ==
    IF u = 1 THEN <<"A", "B">> ELSE IF u = 2 THEN <<"A">> ELSE <<>>

\* the Items primary key (item_id, pincode) of user u's i-th selection
KeyOf(u, i) == <<selected_items(u)[i], Pincode(u)>>
Selections == UNION {{<<u, i>> : i \in 1..Len(selected_items(u))} : u \in Users}
Keys == {KeyOf(x[1], x[2]) : x \in Selections}

\* UserSelectedItems.max_price / max_offer (models.py:30,32) of every selection
Thresholds == [max_price |-> 95, max_offer |-> 10]

\* what the price endpoint may answer (worker.py:121-136)
\* an unchanged price, a drop below max_price, a better offer at the old
\* price, and a price of zero for an item out of stock
Snapshots ==
    { [selling_price |-> 100, discount_percent |-> 5, is_available |-> TRUE],
      [selling_price |-> 90, discount_percent |-> 5, is_available |-> TRUE],
      [selling_price |-> 100, discount_percent |-> 15, is_available |-> TRUE],
      [selling_price |-> 0, discount_percent |-> 5, is_available |-> FALSE] }
Cols == {"selling_price", "discount_percent", "is_available"}

\* the row add_items (app.py:211-243) leaves behind for a tracked item
InitialItem == [selling_price |-> 100, discount_percent |-> 5, is_available |-> TRUE]
InitialLog == [selling_price |-> 100, discount_percent |-> 5, ts |-> 0]

NoSnap == [none |-> TRUE]
NoDec == [none |-> TRUE]
NoApp == [none |-> TRUE]
NoCookie == [none |-> TRUE]
\* the dict fetch_cookies returns (worker.py:88-93) for u's n-th request to
\* the pincode endpoint
Cookie(u, n) == [nms_mgo_pincode |-> Pincode(u), response |-> n]
\* cookie_calls: requests to the pincode endpoint; price_cookies: the cookies
\* sent with the requests to the price endpoint
NoRequests == [cookie_calls |-> 0, price_cookies |-> {}]
EmptySession == [items |-> <<>>, hist |-> <<>>, sel |-> {}]
IdleTask == [pc |-> "idle", i |-> 0, item |-> NoRow, cur |-> NoSnap,
             ts |-> 0, change_percent |-> 0, exc |-> "none", cookie |-> NoCookie]

VARIABLES
    DBUser,             \* table users: the users worker() loads
    cycle,              \* number of worker() runs started
    worker_pc,          \* "idle", "gather", "returned", "raised"
    SEM,                \* free slots of the module-level semaphore
    waiters,            \* tasks queued at `async with SEM`, in FIFO order
    task,               \* per user: the coroutine's position and locals
    session,            \* per user: the pending (uncommitted) work of its Session
    users,              \* per user: email_sent_count of the loaded selections
    Items,              \* table items: key -> row
    ItemsPriceLogger,   \* table items_price_logger: key -> rows in insert order
    UserSelectedItems,  \* table user_selected_items: email_sent_count per selection
    now,                \* datetime.now(timezone.utc)
    mails,              \* per selection: send_mail_async calls that returned
    EMAIL_SENT_COUNT,   \* settings.EMAIL_SENT_COUNT
    outbound,           \* per user: the requests its task has issued in this run
    dec,                \* the decision harness (SpecDecide)
    app                 \* the web handlers and the tables they use (SpecApp)

mainvars == <<DBUser, cycle, worker_pc, SEM, waiters, task, session, users, Items,
              ItemsPriceLogger, UserSelectedItems, now, mails, EMAIL_SENT_COUNT,
              outbound>>
vars == <<mainvars, dec, app>>

\* the users table holds nobody, user 1 alone, or every user; the history
\* table is empty or holds the row add_items logged for every tracked item
Init ==
    /\ DBUser \in {1..n : n \in {0, 1, NumUsers}}
    /\ cycle = 0
    /\ worker_pc = "idle"
    /\ SEM = CONCURRENT_REQUESTS
    /\ waiters = <<>>
    /\ task = [u \in Users |-> IdleTask]
    /\ session = [u \in Users |-> EmptySession]
    /\ UserSelectedItems = [u \in Users |-> [i \in 1..Len(selected_items(u)) |-> 1]]
    /\ users = UserSelectedItems
    /\ Items = [k \in Keys |-> InitialItem]
    /\ ItemsPriceLogger \in {[k \in Keys |-> <<>>], [k \in Keys |-> <<InitialLog>>]}
    /\ now = 1
    /\ mails = [u \in Users |-> [i \in 1..Len(selected_items(u)) |-> 0]]
    /\ EMAIL_SENT_COUNT \in 0..MaxEmailCount
    /\ outbound = [u \in Users |-> NoRequests]
    /\ dec = NoDec
    /\ app = NoApp

\* -------------------------------------------------------------- DB helpers
\* get_latest_price (worker.py:143-150): the rows of the key ordered by
\* last_updated_timestamp descending, limit 1; NoRow when there is none.
get_latest_price(log, k) ==
    IF log[k] = <<>> THEN {NoRow}
    ELSE {log[k][n] : n \in {m \in 1..Len(log[k]) :
                               \A j \in 1..Len(log[k]) : log[k][j].ts <= log[k][m].ts}}

\* The UPDATE a flush emits for a loaded row: only the columns whose value
\* differs from the value the session loaded.
Diff(loaded, new) == [c \in {d \in Cols : new[d] # loaded[d]} |-> new[c]]
ApplyDiff(row, diff) == [c \in Cols |-> IF c \in DOMAIN diff THEN diff[c] ELSE row[c]]

\* the pending Items rows of a session, each with the values it was loaded
\* with (loaded) and its current values (new), are flushed in order
RECURSIVE FlushItems(_, _)
FlushItems(tbl, pending) ==
    IF pending = <<>> THEN tbl
    ELSE LET p == Head(pending)
         IN  FlushItems([tbl EXCEPT ![p.key] = ApplyDiff(@, Diff(p.loaded, p.new))],
                        Tail(pending))

RECURSIVE FlushHist(_, _)
FlushHist(log, pending) ==
    IF pending = <<>> THEN log
    ELSE LET p == Head(pending)
         IN  FlushHist([log EXCEPT ![p.key] = Append(@, p.row)], Tail(pending))

\* session.commit() of user u's Session (worker.py:205, 221): the pending
\* Items updates, history inserts and selection updates become durable.
SessionCommit(u) ==
    /\ Items' = FlushItems(Items, session[u].items)
    /\ ItemsPriceLogger' = FlushHist(ItemsPriceLogger, session[u].hist)
    /\ UserSelectedItems' =
         [UserSelectedItems EXCEPT ![u] =
            [i \in DOMAIN @ |-> IF i \in session[u].sel THEN users[u][i] ELSE @[i]]]

\* ------------------------------------------------------------ process_user
ClientOpen == worker_pc = "gather"

\* the exception leaves process_user with the slot still held
Raise_no_release(u, e) ==
    /\ task' = [task EXCEPT ![u] = [IdleTask EXCEPT !.pc = "failed", !.exc = e]]
    /\ session' = [session EXCEPT ![u] = EmptySession]
    /\ SEM' = SEM

\* An exception leaves process_user: the Session closes without commit and
\* `async with SEM` (worker.py:232) releases the slot.
Raise(u, e) ==
    /\ task' = [task EXCEPT ![u] = [IdleTask EXCEPT !.pc = "failed", !.exc = e]]
    /\ session' = [session EXCEPT ![u] = EmptySession]
    /\ SEM' = SEM + 1

\* the for loop of worker.py:197 moves on: the next selection, or the final commit
LoopNext(u) ==
    IF task[u].i < Len(selected_items(u))
    THEN [IdleTask EXCEPT !.pc = "get_item", !.i = task[u].i + 1,
                          !.cookie = task[u].cookie]
    ELSE [IdleTask EXCEPT !.pc = "commit", !.i = task[u].i, !.cookie = task[u].cookie]

\* the history row is skipped when the snapshot repeats the loaded Items row
UpdateAndLog_skip_unchanged(sess, u, first) ==
    LET t == task[u]
        k == KeyOf(u, t.i)
    IN  [sess EXCEPT
           !.items = Append(@, [key |-> k, loaded |-> t.item, new |-> t.cur]),
           !.hist = IF t.item = t.cur THEN @
                    ELSE Append(@, [key |-> k, first |-> first,
                                    row |-> [selling_price |-> t.cur.selling_price,
                                             discount_percent |-> t.cur.discount_percent,
                                             ts |-> t.ts]])]

\* the history row is put in front of the session's pending rows
UpdateAndLog_prepend(sess, u, first) ==
    LET t == task[u]
        k == KeyOf(u, t.i)
    IN  [sess EXCEPT
           !.items = Append(@, [key |-> k, loaded |-> t.item, new |-> t.cur]),
           !.hist = <<[key |-> k, first |-> first,
                       row |-> [selling_price |-> t.cur.selling_price,
                                discount_percent |-> t.cur.discount_percent,
                                ts |-> t.ts]]>> \o @]

\* worker.py:211-219: the Items row takes the snapshot's columns and a
\* history row is added to the session; first records whether price_match
\* found no previous row for the key
UpdateAndLog(sess, u, first) ==
    LET t == task[u]
        k == KeyOf(u, t.i)
    IN  [sess EXCEPT
           !.items = Append(@, [key |-> k, loaded |-> t.item, new |-> t.cur]),
           !.hist = Append(@, [key |-> k, first |-> first,
                               row |-> [selling_price |-> t.cur.selling_price,
                                        discount_percent |-> t.cur.discount_percent,
                                        ts |-> t.ts]])]

\* the task enters process_user without waiting for a free slot
Acquire_ungated(u) ==
    /\ task[u].pc = "sem"
    /\ waiters # <<>> /\ Head(waiters) = u
    /\ SEM' = SEM - 1
    /\ waiters' = Tail(waiters)
    /\ task' = [task EXCEPT ![u].pc = "fetch_cookies"]
    /\ UNCHANGED <<DBUser, cycle, worker_pc, session, users, Items, ItemsPriceLogger,
                   UserSelectedItems, now, mails, EMAIL_SENT_COUNT, outbound, dec, app>>

\* worker.py:231-232: the task at the head of the FIFO queue takes a free slot
Acquire(u) ==
    /\ task[u].pc = "sem"
    /\ waiters # <<>> /\ Head(waiters) = u
    /\ SEM > 0
    /\ SEM' = SEM - 1
    /\ waiters' = Tail(waiters)
    /\ task' = [task EXCEPT ![u].pc = "fetch_cookies"]
    /\ UNCHANGED <<DBUser, cycle, worker_pc, session, users, Items, ItemsPriceLogger,
                   UserSelectedItems, now, mails, EMAIL_SENT_COUNT, outbound, dec, app>>

\* the request to the pincode endpoint is issued a second time before its
\* answer is used
fetch_cookies_retry(u) ==
    /\ task[u].pc = "fetch_cookies"
    /\ outbound' = [outbound EXCEPT ![u].cookie_calls = @ + 2]
    /\ \/ /\ ClientOpen
          /\ task' = [task EXCEPT ![u] =
                [LoopNext(u) EXCEPT !.cookie = Cookie(u, outbound'[u].cookie_calls)]]
          /\ UNCHANGED <<session, SEM>>
       \/ Raise(u, IF ClientOpen THEN "fetch_cookies" ELSE "client_closed")
    /\ UNCHANGED <<DBUser, cycle, worker_pc, waiters, users, Items, ItemsPriceLogger,
                   UserSelectedItems, now, mails, EMAIL_SENT_COUNT, dec, app>>

\* worker.py:195-197: the region cookies arrive (or the request raises, as it
\* must once the client is closed); the Session opens and the loop starts
fetch_cookies(u) ==
    /\ task[u].pc = "fetch_cookies"
    /\ outbound' = [outbound EXCEPT ![u].cookie_calls = @ + 1]
    /\ \/ /\ ClientOpen
          /\ task' = [task EXCEPT ![u] =
                [LoopNext(u) EXCEPT !.cookie = Cookie(u, outbound'[u].cookie_calls)]]
          /\ UNCHANGED <<session, SEM>>
       \/ Raise(u, IF ClientOpen THEN "fetch_cookies" ELSE "client_closed")
    /\ UNCHANGED <<DBUser, cycle, worker_pc, waiters, users, Items, ItemsPriceLogger,
                   UserSelectedItems, now, mails, EMAIL_SENT_COUNT, dec, app>>

\* worker.py:198-200: session.get(Items, key), and `continue` when there is
\* no row; a selection references its row by foreign key (models.py:37-43),
\* so the tables of Init hold one for every selection
get_item(u) ==
    /\ task[u].pc = "get_item"
    /\ \/ /\ task' = [task EXCEPT ![u] =
                IF Items[KeyOf(u, task[u].i)] = NoRow THEN LoopNext(u)
                ELSE [@ EXCEPT !.pc = "fetch_price", !.item = Items[KeyOf(u, task[u].i)]]]
          /\ UNCHANGED <<session, SEM>>
       \/ Raise(u, "db")
    /\ UNCHANGED <<DBUser, cycle, worker_pc, waiters, users, Items, ItemsPriceLogger,
                   UserSelectedItems, now, mails, EMAIL_SENT_COUNT, outbound, dec, app>>

\* the cookies are resolved again for every item, inside the loop
fetch_price_refetch(u) ==
    LET n == outbound[u].cookie_calls + 1
    IN  /\ task[u].pc = "fetch_price"
        /\ outbound' = [outbound EXCEPT ![u].cookie_calls = n,
                                        ![u].price_cookies = @ \cup {Cookie(u, n)}]
        /\ \/ /\ ClientOpen
              /\ \E snap \in Snapshots :
                    task' = [task EXCEPT ![u].pc = "get_latest_price", ![u].cur = snap,
                                         ![u].ts = now, ![u].cookie = Cookie(u, n)]
              /\ now' = now + 1
              /\ UNCHANGED <<session, SEM>>
           \/ /\ ClientOpen
              /\ task' = [task EXCEPT ![u].pc = "commit_unavailable",
                                      ![u].cookie = Cookie(u, n)]
              /\ session' = [session EXCEPT ![u].items =
                    Append(@, [key |-> KeyOf(u, task[u].i), loaded |-> task[u].item,
                               new |-> [task[u].item EXCEPT !.is_available = FALSE]])]
              /\ UNCHANGED <<now, SEM>>
           \/ /\ Raise(u, IF ClientOpen THEN "fetch_price" ELSE "client_closed")
              /\ UNCHANGED now
        /\ UNCHANGED <<DBUser, cycle, worker_pc, waiters, users, Items, ItemsPriceLogger,
                       UserSelectedItems, mails, EMAIL_SENT_COUNT, dec, app>>

\* worker.py:202-204 with fetch_price (96-136): a snapshot stamped with the
\* current time, None for a 'failure' status, or an exception (HTTP error,
\* malformed body, closed client); the request carries the task's cookie
fetch_price(u) ==
    /\ task[u].pc = "fetch_price"
    /\ outbound' = [outbound EXCEPT ![u].price_cookies = @ \cup {task[u].cookie}]
    /\ \/ /\ ClientOpen
          /\ \E snap \in Snapshots :
                task' = [task EXCEPT ![u].pc = "get_latest_price",
                                     ![u].cur = snap, ![u].ts = now]
          /\ now' = now + 1
          /\ UNCHANGED <<session, SEM>>
       \/ /\ ClientOpen
          /\ task' = [task EXCEPT ![u].pc = "commit_unavailable"]
          /\ session' = [session EXCEPT ![u].items =
                Append(@, [key |-> KeyOf(u, task[u].i), loaded |-> task[u].item,
                           new |-> [task[u].item EXCEPT !.is_available = FALSE]])]
          /\ UNCHANGED <<now, SEM>>
       \/ /\ Raise(u, IF ClientOpen THEN "fetch_price" ELSE "client_closed")
          /\ UNCHANGED now
    /\ UNCHANGED <<DBUser, cycle, worker_pc, waiters, users, Items, ItemsPriceLogger,
                   UserSelectedItems, mails, EMAIL_SENT_COUNT, dec, app>>

\* worker.py:205-206: the commit after an unavailable item, then `continue`
commit_unavailable(u) ==
    /\ task[u].pc = "commit_unavailable"
    /\ \/ /\ SessionCommit(u)
          /\ session' = [session EXCEPT ![u] = EmptySession]
          /\ task' = [task EXCEPT ![u] = LoopNext(u)]
          /\ UNCHANGED SEM
       \/ /\ Raise(u, "commit")
          /\ UNCHANGED <<Items, ItemsPriceLogger, UserSelectedItems>>
    /\ UNCHANGED <<DBUser, cycle, worker_pc, waiters, users, now, mails, EMAIL_SENT_COUNT, outbound, dec, app>>

\* worker.py:207 with price_match (157-176): the latest history row is read
\* and the decision taken; on "notify" the mail is awaited, otherwise the
\* loop body finishes (211-219)
match(u) ==
    /\ task[u].pc = "get_latest_price"
    /\ \/ \E prev \in get_latest_price(ItemsPriceLogger, KeyOf(u, task[u].i)) :
            LET i == task[u].i
                r == price_match(users[u][i], prev, task[u].cur, Thresholds.max_price,
                                 Thresholds.max_offer, EMAIL_SENT_COUNT)
            IN  \/ /\ r.outcome = "none"
                   /\ users' = [users EXCEPT ![u][i] = r.budget]
                   /\ session' = [session EXCEPT ![u] = UpdateAndLog(@, u, prev = NoRow)]
                   /\ task' = [task EXCEPT ![u] = LoopNext(u)]
                   /\ UNCHANGED SEM
                \/ /\ r.outcome = "notify"
                   /\ users' = [users EXCEPT ![u][i] = r.budget]
                   /\ task' = [task EXCEPT ![u].pc = "send_mail",
                                           ![u].change_percent = r.change_percent]
                   /\ UNCHANGED <<session, SEM>>
                \/ /\ r.outcome = "raise"
                   /\ users' = [users EXCEPT ![u][i] = r.budget]
                   /\ Raise(u, "price_match")
       \/ /\ Raise(u, "db")
          /\ UNCHANGED users
    /\ UNCHANGED <<DBUser, cycle, worker_pc, waiters, Items, ItemsPriceLogger,
                   UserSelectedItems, now, mails, EMAIL_SENT_COUNT, outbound, dec, app>>

\* worker.py:177-190 and 209-219: send_mail_async returns and the selection
\* joins the session, or it raises (mailer.py:74-82)
send_mail(u) ==
    /\ task[u].pc = "send_mail"
    /\ \/ /\ mails' = [mails EXCEPT ![u][task[u].i] = @ + 1]
          /\ session' = [session EXCEPT
                ![u] = UpdateAndLog([@ EXCEPT !.sel = @ \cup {task[u].i}], u, FALSE)]
          /\ task' = [task EXCEPT ![u] = LoopNext(u)]
          /\ UNCHANGED SEM
       \/ /\ Raise(u, "send_mail")
          /\ UNCHANGED mails
    /\ UNCHANGED <<DBUser, cycle, worker_pc, waiters, users, Items, ItemsPriceLogger,
                   UserSelectedItems, now, EMAIL_SENT_COUNT, outbound, dec, app>>

\* worker.py:221 and 232: the final commit; the task ends and frees its slot
commit(u) ==
    /\ task[u].pc = "commit"
    /\ \/ /\ SessionCommit(u)
          /\ session' = [session EXCEPT ![u] = EmptySession]
          /\ task' = [task EXCEPT ![u] = [IdleTask EXCEPT !.pc = "done"]]
          /\ SEM' = SEM + 1
       \/ /\ Raise(u, "commit")
          /\ UNCHANGED <<Items, ItemsPriceLogger, UserSelectedItems>>
    /\ UNCHANGED <<DBUser, cycle, worker_pc, waiters, users, now, mails, EMAIL_SENT_COUNT, outbound, dec, app>>

process_user(u) ==
    \/ fetch_cookies(u) \/ get_item(u) \/ fetch_price(u) \/ commit_unavailable(u)
    \/ match(u) \/ send_mail(u) \/ commit(u)

\* ------------------------------------------------------------------ worker
CycleBound == IF Cardinality(DBUser) <= 1 THEN MaxCycles ELSE 1

Finished(u) == task[u].pc \in {"idle", "done", "failed"}

\* the job may run in several instances at once: a run is started while
\* worker() is still in gather
StartCycle_overlapping ==
    /\ cycle < CycleBound
    /\ \A u \in Users : Finished(u)
    /\ cycle' = cycle + 1
    /\ worker_pc' = "gather"
    /\ users' = UserSelectedItems
    /\ task' = [u \in Users |-> IF u \in DBUser THEN [IdleTask EXCEPT !.pc = "sem"]
                                                  ELSE IdleTask]
    /\ waiters' = [n \in 1..Cardinality(DBUser) |-> n]
    /\ outbound' = [u \in Users |-> NoRequests]
    /\ UNCHANGED <<DBUser, SEM, session, Items, ItemsPriceLogger, UserSelectedItems, now,
                   mails, EMAIL_SENT_COUNT, dec, app>>

\* worker.py:236-247: the users and their selections are loaded and one task
\* per user is created; each starts at `async with SEM` in creation order.
\* The scheduler's hourly trigger (scheduler.py:16-23) comes after the tasks
\* of the previous run have ended, and the job is added with the scheduler's
\* default of one running instance (no max_instances at scheduler.py:16-23),
\* so a trigger that fires while worker() is still running starts nothing.
StartCycle ==
    /\ cycle < CycleBound
    /\ worker_pc # "gather"
    /\ \A u \in Users : Finished(u)
    /\ cycle' = cycle + 1
    /\ worker_pc' = "gather"
    /\ users' = UserSelectedItems
    /\ task' = [u \in Users |-> IF u \in DBUser THEN [IdleTask EXCEPT !.pc = "sem"]
                                                  ELSE IdleTask]
    /\ waiters' = [n \in 1..Cardinality(DBUser) |-> n]
    /\ outbound' = [u \in Users |-> NoRequests]
    /\ UNCHANGED <<DBUser, SEM, session, Items, ItemsPriceLogger, UserSelectedItems, now,
                   mails, EMAIL_SENT_COUNT, dec, app>>

\* worker.py:248-250: gather returns once every task has ended without an
\* exception; the client closes and worker() returns
WorkerReturn ==
    /\ worker_pc = "gather"
    /\ \A u \in DBUser : task[u].pc = "done"
    /\ worker_pc' = "returned"
    /\ UNCHANGED <<DBUser, cycle, SEM, waiters, task, session, users, Items, ItemsPriceLogger,
                   UserSelectedItems, now, mails, EMAIL_SENT_COUNT, outbound, dec, app>>

\* worker.py:248: gather (return_exceptions is False) re-raises the first
\* exception of a task; it leaves `async with httpx_client()`, which closes
\* the client, and leaves worker(); the other tasks keep running
WorkerRaise ==
    /\ worker_pc = "gather"
    /\ \E u \in Users : task[u].pc = "failed"
    /\ worker_pc' = "raised"
    /\ UNCHANGED <<DBUser, cycle, SEM, waiters, task, session, users, Items, ItemsPriceLogger,
                   UserSelectedItems, now, mails, EMAIL_SENT_COUNT, outbound, dec, app>>

Next ==
    \/ StartCycle
    \/ \E u \in Users : Acquire(u)
    \/ \E u \in Users : process_user(u)
    \/ WorkerReturn
    \/ WorkerRaise

Spec == Init /\ [][Next]_vars

\* A run in which every user is loaded, each tracked item has its logged
\* history row, and the Items rows are as add_items wrote them or were all
\* marked unavailable by an earlier run (worker.py:204-205).
InitContended ==
    /\ DBUser = Users
    /\ cycle = 0
    /\ worker_pc = "idle"
    /\ SEM = CONCURRENT_REQUESTS
    /\ waiters = <<>>
    /\ task = [u \in Users |-> IdleTask]
    /\ session = [u \in Users |-> EmptySession]
    /\ UserSelectedItems = [u \in Users |-> [i \in 1..Len(selected_items(u)) |-> 1]]
    /\ users = UserSelectedItems
    /\ \E a \in BOOLEAN : Items = [k \in Keys |-> [InitialItem EXCEPT !.is_available = a]]
    /\ ItemsPriceLogger = [k \in Keys |-> <<InitialLog>>]
    /\ now = 1
    /\ mails = [u \in Users |-> [i \in 1..Len(selected_items(u)) |-> 0]]
    /\ EMAIL_SENT_COUNT = 1
    /\ outbound = [u \in Users |-> NoRequests]
    /\ dec = NoDec
    /\ app = NoApp

SpecContended == InitContended /\ [][Next]_vars

\* The scheduler triggers worker() hour after hour for a single user.
InitAlone == Init /\ DBUser = {1}

SpecAlone == InitAlone /\ [][Next]_vars

\* The event loop runs every task that is ready: a task whose await has
\* completed (every network call, mail and commit returns or fails within its
\* timeout) takes its next step, a freed slot wakes the first waiter of SEM,
\* and gather wakes worker() once its tasks have ended or one has raised.
Fairness ==
    /\ \A u \in Users : WF_vars(Acquire(u)) /\ WF_vars(process_user(u))
    /\ WF_vars(WorkerReturn)
    /\ WF_vars(WorkerRaise)

\* every user is loaded and every tracked item is logged and available
InitFair == InitContended /\ \A k \in Keys : Items[k].is_available

FairSpec == InitFair /\ [][Next]_vars /\ Fairness

\* ------------------------------------------------------ the decision harness
\* price_match applied, cycle after cycle, to one selection of a user who is
\* processed alone and whose network, mail and database calls all succeed:
\* dec holds the selection's persisted email_sent_count, its thresholds, the
\* latest history row of its key, in last the previous call's inputs and
\* result, the budget it started with (b0) and the number of mails sent.
DecPrices == {0, 45, 90, 95, 100, 110}
DecDiscounts == {5, 10, 15}
DecSnapshots == [selling_price : DecPrices, discount_percent : DecDiscounts]
DecRows == {NoRow} \cup [selling_price : DecPrices]

MainIdle ==
    /\ DBUser = {}
    /\ cycle = 0
    /\ worker_pc = "idle"
    /\ SEM = CONCURRENT_REQUESTS
    /\ waiters = <<>>
    /\ task = [u \in Users |-> IdleTask]
    /\ session = [u \in Users |-> EmptySession]
    /\ UserSelectedItems = [u \in Users |-> [i \in 1..Len(selected_items(u)) |-> 1]]
    /\ users = UserSelectedItems
    /\ Items = [k \in Keys |-> InitialItem]
    /\ ItemsPriceLogger = [k \in Keys |-> <<InitialLog>>]
    /\ now = 1
    /\ mails = [u \in Users |-> [i \in 1..Len(selected_items(u)) |-> 0]]
    /\ EMAIL_SENT_COUNT = 0
    /\ outbound = [u \in Users |-> NoRequests]

InitDecide ==
    /\ MainIdle
    /\ dec \in {[d EXCEPT !.b0 = d.budget] :
                  d \in [budget : 0..MaxBudget, prev : DecRows, max_price : {95, 100},
                         max_offer : {10}, esc : 0..MaxEmailCount, n : {0},
                         last : {NoDec}, b0 : {0}, sent : {0}, below : {TRUE}]}
    /\ app = NoApp

decide ==
    /\ dec # NoDec
    /\ dec.n < MaxSteps
    /\ \E cur \in DecSnapshots :
          LET r == price_match(dec.budget, dec.prev, cur, dec.max_price, dec.max_offer,
                               dec.esc)
          IN  dec' = [dec EXCEPT
                        !.n = @ + 1,
                        \* worker.py:177: the mails sent so far, and whether every
                        \* fetched price so far was below max_price
                        !.sent = IF r.outcome = "notify" THEN @ + 1 ELSE @,
                        !.below = @ /\ cur.selling_price < dec.max_price,
                        !.last = [budget |-> dec.budget, prev |-> dec.prev,
                                  cur |-> cur, out |-> r],
                        \* worker.py:207-209: only a returned selection is saved
                        !.budget = IF r.outcome = "notify" THEN r.budget ELSE @,
                        \* worker.py:219: the snapshot becomes the latest row
                        !.prev = IF r.outcome = "raise" THEN @
                                 ELSE [selling_price |-> cur.selling_price]]
    /\ UNCHANGED <<mainvars, app>>

SpecDecide == InitDecide /\ [][decide]_vars

\* ------------------------------------------------------------- the web app
\* The handlers of /add-items and /delete-item (app.py) for one signed-up
\* user, each request with a session of its own (get_db_session, app.py:64-67).
\* app holds the tables as committed (selected_items: the user's rows of
\* user_selected_items; Items and ItemsPriceLogger by item_id, the user's
\* pincode being fixed), the row locks of uncommitted writes, the requests
\* in progress, the next uuid and the number of requests received.
MaxRequests == 4
NumHandlers == 2
Handlers == 1..NumHandlers
ItemIds == {"A", "B"}
\* the product as the price endpoint reports it (app.py:192-224)
AppSnapshots == {c \in Snapshots : c.is_available}
\* max_price and max_offer of AddedItemsRequest; 0 stands for a field left out
Requested == {[max_price |-> 0, max_offer |-> 0], [max_price |-> 95, max_offer |-> 10]}
IdleRequest == [pc |-> "idle"]

InitApp ==
    /\ MainIdle
    /\ dec = NoDec
    /\ app = [selected_items |-> {},
              Items |-> [k \in ItemIds |-> NoRow],
              ItemsPriceLogger |-> [k \in ItemIds |-> <<>>],
              lock |-> [k \in ItemIds |-> 0],
              req |-> [r \in Handlers |-> IdleRequest],
              uuid |-> 1,
              n |-> 0]

\* app.py:188-227: the user is found, the product fetched, and db.merge
\* loads the Items row of the key (NoRow when there is none) and copies the
\* fetched values onto it
add_items_merge(r) ==
    /\ app # NoApp
    /\ app.req[r].pc = "idle"
    /\ app.n < MaxRequests
    /\ \E k \in ItemIds, q \in Requested, c \in AppSnapshots :
          app' = [app EXCEPT !.n = @ + 1,
                             !.req[r] = [pc |-> "refresh", item_id |-> k, request |-> q,
                                         item |-> c, loaded |-> app.Items[k]]]
    /\ UNCHANGED <<mainvars, dec>>

\* app.py:229: db.refresh autoflushes the merged row (an INSERT when merge
\* found none, an UPDATE of the changed columns otherwise, nothing when no
\* column changed), which waits for the row lock and fails on a key
\* inserted meanwhile; then the user's committed selections are loaded
add_items_refresh(r) ==
    /\ app # NoApp
    /\ app.req[r].pc = "refresh"
    /\ LET q == app.req[r]
           k == q.item_id
           writes == q.loaded = NoRow \/ Diff(q.loaded, q.item) # << >>
       IN  /\ writes => app.lock[k] = 0
           /\ IF q.loaded = NoRow /\ app.Items[k] # NoRow
              THEN app' = [app EXCEPT !.req[r] = IdleRequest]
              ELSE app' = [app EXCEPT
                             !.lock[k] = IF writes THEN r ELSE @,
                             !.req[r] = [q EXCEPT !.pc = "commit"] @@
                                        [seen |-> {t.item_id : t \in app.selected_items}]]
    /\ UNCHANGED <<mainvars, dec>>

\* app.py:230-243: the selection is appended unless the loaded list has one
\* with the same item_id (UserSelectedItems.__eq__, models.py:34-35); the
\* history row is added; commit.  max_price and max_offer fall back to the
\* fetched selling_price and discount_percent.
add_items_commit(r) ==
    /\ app # NoApp
    /\ app.req[r].pc = "commit"
    /\ LET q == app.req[r]
           k == q.item_id
           selected_item ==
               [id |-> app.uuid, item_id |-> k,
                max_price |-> IF q.request.max_price = 0 THEN q.item.selling_price
                              ELSE q.request.max_price,
                max_offer |-> IF q.request.max_offer = 0 THEN q.item.discount_percent
                              ELSE q.request.max_offer]
           new == k \notin q.seen
       IN  app' = [app EXCEPT
                     !.Items[k] = IF q.loaded = NoRow THEN q.item
                                  ELSE ApplyDiff(@, Diff(q.loaded, q.item)),
                     !.ItemsPriceLogger[k] =
                          Append(@, [selling_price |-> q.item.selling_price,
                                     discount_percent |-> q.item.discount_percent]),
                     !.selected_items = IF new THEN @ \cup {selected_item} ELSE @,
                     !.uuid = IF new THEN @ + 1 ELSE @,
                     !.lock[k] = IF @ = r THEN 0 ELSE @,
                     !.req[r] = IdleRequest]
    /\ UNCHANGED <<mainvars, dec>>

\* app.py:307-315: the DELETE statement marks the user's rows with the
\* item_id of the request
delete_item_execute(r) ==
    /\ app # NoApp
    /\ app.req[r].pc = "idle"
    /\ app.n < MaxRequests
    /\ \E k \in ItemIds :
          app' = [app EXCEPT !.n = @ + 1,
                             !.req[r] = [pc |-> "delete", item_id |-> k,
                                         ids |-> {t.id : t \in {x \in app.selected_items :
                                                                  x.item_id = k}}]]
    /\ UNCHANGED <<mainvars, dec>>

\* app.py:316: commit; the rows are gone, Items and history are not touched
delete_item_commit(r) ==
    /\ app # NoApp
    /\ app.req[r].pc = "delete"
    /\ app' = [app EXCEPT !.selected_items = {t \in @ : t.id \notin app.req[r].ids},
                          !.req[r] = IdleRequest]
    /\ UNCHANGED <<mainvars, dec>>

NextApp ==
    \E r \in Handlers :
        \/ add_items_merge(r)
        \/ add_items_refresh(r)
        \/ add_items_commit(r)
        \/ delete_item_execute(r)
        \/ delete_item_commit(r)

SpecApp == InitApp /\ [][NextApp]_vars

\* ------------------------------------------------------------------ claims
\* user-units admitted through the gate that have not finished
InFlight == {u \in Users : task[u].pc \notin {"idle", "sem", "done", "failed"}}
AllFinished == cycle > 0 /\ \A u \in DBUser : task[u].pc \in {"done", "failed"}

\* C1: at most CONCURRENT_REQUESTS user-units are in flight (admitted and
\* not finished) in every reachable state.
C1_ConcurrencyBound == Cardinality(InFlight) <= CONCURRENT_REQUESTS
\* the cap is reached while a task still waits at the gate
C1_Witness == Cardinality(InFlight) = CONCURRENT_REQUESTS /\ waiters # <<>>

\* C2: once the tasks of a cycle have ended, a price fetch that raised in one
\* user-unit has stopped no unit from completing: every unit that met no
\* failure other than that raise, or the closed client that follows it,
\* ended with its commit.
C2_Isolation ==
    (AllFinished /\ \E u \in DBUser : task[u].exc = "fetch_price")
        => \A u \in DBUser :
              task[u].exc \in {"none", "fetch_price", "client_closed"}
                  => task[u].pc = "done"

\* the inputs of the last decision step of the harness
LastReset ==
    /\ dec.last.prev # NoRow
    /\ dec.last.cur.selling_price < dec.last.prev.selling_price
    /\ dec.last.cur.selling_price < dec.max_price
LastPriceDropped == dec.last.cur.selling_price < dec.max_price
LastOfferImproved == dec.last.cur.discount_percent > dec.max_offer
Decided == dec # NoDec /\ dec.last # NoDec

C4_BudgetNonNegative ==
    \A x \in Selections :
        UserSelectedItems[x[1]][x[2]] >= 0 /\ users[x[1]][x[2]] >= 0
\* a selection notified down to 0 in the first cycle went through its
\* decision step again in the second and is still at 0
C4_Witness ==
    /\ cycle = 2 /\ task[1].pc = "commit"
    /\ mails[1][1] = 1 /\ UserSelectedItems[1][1] = 0 /\ users[1][1] = 0
    /\ \E p \in {session[1].hist[n] : n \in 1..Len(session[1].hist)} :
          p.key = KeyOf(1, 1) /\ p.row.selling_price < Thresholds.max_price

\* the decision step of u: the step that leaves line 161
MatchStep(u) == task[u].pc = "get_latest_price" /\ task'[u] # task[u]
\* a commit of u that succeeded
CommitStep(u) ==
    /\ task[u].pc \in {"commit", "commit_unavailable"}
    /\ task'[u] # task[u] /\ task'[u].pc # "failed"
\* the fetched snapshot repeats the latest history row of its key
Unchanged(u) ==
    \E prev \in get_latest_price(ItemsPriceLogger, KeyOf(u, task[u].i)) :
        /\ prev # NoRow
        /\ prev.selling_price = task[u].cur.selling_price
        /\ prev.discount_percent = task[u].cur.discount_percent
Rows(pending, k) == SelectSeq(pending, LAMBDA p : p.key = k)
RowsOf(pending) == [n \in 1..Len(pending) |-> pending[n].row]
\* every commit appends the session's history rows, one per fetched snapshot
CommitAppends(u) ==
    \A k \in Keys :
        ItemsPriceLogger'[k] = ItemsPriceLogger[k] \o RowsOf(Rows(session[u].hist, k))

ItemRows(u, k) == Rows(session[u].items, k)
FirstRows(u) == {session[u].hist[n] : n \in {m \in 1..Len(session[u].hist) :
                                                session[u].hist[m].first}}
\* a decision step that found no previous row sends nothing and leaves the budget
FirstRunQuiet(u) ==
    (MatchStep(u) /\ get_latest_price(ItemsPriceLogger, KeyOf(u, task[u].i)) = {NoRow}
        /\ task'[u].pc # "failed")
        => /\ task'[u].pc # "send_mail"
           /\ users' = users
           /\ mails' = mails

C7_Case ==
    /\ Decided /\ dec.last.prev # NoRow /\ dec.last.prev.selling_price > 0
    /\ dec.last.budget > 0 /\ LastPriceDropped
\* change_percent is an integer nearest to 100 * (max_price - new) / previous
NearestPercent ==
    LET n == (dec.max_price - dec.last.cur.selling_price) * 100
        d == dec.last.prev.selling_price
        e == n - dec.last.out.change_percent * d
    IN  2 * e <= d /\ 2 * e >= -d

C8_NoTrigger ==
    (Decided /\ ~LastPriceDropped /\ ~LastOfferImproved)
        => /\ dec.last.out.outcome = "none"
           /\ dec.last.out.budget = dec.last.budget
           /\ dec.budget = dec.last.budget
\* previous 100, new 110, max_price 95, max_offer 10, discount 5, budget left
C8_Witness ==
    /\ Decided /\ dec.last.prev = [selling_price |-> 100]
    /\ dec.last.cur = [selling_price |-> 110, discount_percent |-> 5]
    /\ dec.max_price = 95 /\ dec.max_offer = 10 /\ dec.last.budget > 0
    /\ dec.last.out.outcome = "none" /\ dec.budget = dec.last.budget

\* C9: the history rows of a key, in the order they were committed, carry
\* non-decreasing timestamps, and the latest-row lookup returns a row of
\* maximal timestamp.
C9_HistoryMonotonic ==
    \A k \in Keys :
        /\ \A m, n \in 1..Len(ItemsPriceLogger[k]) :
              m < n => ItemsPriceLogger[k][m].ts <= ItemsPriceLogger[k][n].ts
        /\ \A r \in get_latest_price(ItemsPriceLogger, k) :
              r # NoRow => \A n \in 1..Len(ItemsPriceLogger[k]) :
                              ItemsPriceLogger[k][n].ts <= r.ts

\* C10: no failure inside a cycle leaves worker(): the run never ends by raising.
C10_WorkerReturns == worker_pc # "raised"

\* the tables as Init leaves them for the user who is processed alone
Untouched ==
    /\ Items = [k \in Keys |-> InitialItem]
    /\ \A k \in Keys : ItemsPriceLogger[k] \in {<<>>, <<InitialLog>>}
    /\ UserSelectedItems = [u \in Users |-> [i \in 1..Len(selected_items(u)) |-> 1]]

\* C11: a user-unit's mutations become durable all together or not at all:
\* when the unit of a user processed alone fails part-way through its first
\* cycle, nothing it did to the Items, history or selection rows is persisted.
C11_Atomicity ==
    (Cardinality(DBUser) = 1 /\ cycle = 1 /\ \E u \in DBUser : task[u].pc = "failed")
        => Untouched

\* C12: send_mail_async raising is caught: it never ends the user-unit, so
\* the selection's Items update and history row, the remaining selections
\* and the commit still follow.
C12_SinkFailureCaught ==
    \A u \in Users : task[u].exc = "send_mail" => task[u].pc # "failed"

\* C13: a selection whose fetched price was below max_price in every cycle
\* so far has sent at most as many notifications as the budget it started
\* with, however many cycles have run.
C13_AntiSpamBound ==
    (dec # NoDec /\ dec.below /\ dec.n > 0)
        => dec.sent <= dec.b0

\* a is an initial part of b
IsPrefix(a, b) == Len(a) <= Len(b) /\ \A n \in 1..Len(a) : a[n] = b[n]
\* the unit of u has a fetched snapshot whose history row is not yet durable
FetchPending(u) == task[u].cur # NoSnap \/ session[u].hist # <<>>

\* C14: no step changes or removes a persisted history row; a commit appends
\* one row per snapshot fetched since the unit's last commit; and no fetched
\* snapshot is dropped: a unit never ends, unless the database refused a read
\* or the commit, while a snapshot it fetched still waits for its row.
C14_AppendOnlyOnePerFetch ==
    [][/\ \A k \in Keys : IsPrefix(ItemsPriceLogger[k], ItemsPriceLogger'[k])
       /\ \A u \in Users :
            /\ CommitStep(u) => CommitAppends(u)
            /\ (task'[u].pc = "failed" /\ task[u].pc # "failed"
                  /\ task'[u].exc \notin {"db", "commit"}) => ~FetchPending(u)]_vars

\* the commit of worker.py:205 for u's current selection went through
UnavailableCommit(u) == task[u].pc = "commit_unavailable" /\ CommitStep(u)

\* C15: when fetch_price returns None for a selection, the commit that
\* follows leaves the Items row with is_available false and its other fields
\* as they were, appends no history row for the key, sends no mail, leaves
\* the selection's budget, and the loop goes on to the next selection.
C15_Unavailable ==
    [][\A u \in Users :
         /\ (task[u].pc = "fetch_price" /\ task'[u].pc = "commit_unavailable")
               => mails' = mails /\ users' = users
         /\ UnavailableCommit(u) =>
               LET i == task[u].i
                   k == KeyOf(u, i)
               IN  /\ Items'[k].is_available = FALSE
                   /\ \A c \in Cols \ {"is_available"} : Items'[k][c] = Items[k][c]
                   /\ ItemsPriceLogger'[k] = ItemsPriceLogger[k]
                   /\ mails' = mails
                   /\ users'[u][i] = users[u][i]
                   /\ UserSelectedItems'[u][i] = UserSelectedItems[u][i]
                   /\ task'[u] = LoopNext(u)]_vars

\* C16: when the latest history row's selling price is 0, the decision step
\* sends nothing and raises nothing, the budget stays as it was, and the new
\* snapshot becomes the key's latest history row.
C16_ZeroGuard ==
    (Decided /\ dec.last.prev # NoRow /\ dec.last.prev.selling_price = 0)
        => /\ dec.last.out.outcome = "none"
           /\ dec.budget = dec.last.budget
           /\ dec.prev = [selling_price |-> dec.last.cur.selling_price]

\* C17: once worker() has ended (and with it closed the client), every task
\* it spawned has ended: none is running, none waits at the gate.
C17_StructuredJoin ==
    worker_pc \in {"returned", "raised"}
        => /\ \A u \in DBUser : task[u].pc \in {"done", "failed"}
           /\ waiters = <<>>

\* the user-units that are in, or have left, the loop of process_user
InLoop(u) == task[u].pc \in {"get_item", "fetch_price", "get_latest_price", "send_mail",
                             "commit_unavailable", "commit"}

\* C18: a user-unit resolves its region cookies at most once, and has done
\* so before any price request is sent; every price request of the unit
\* carries the cookies of that one resolution.
C18_ContextOnce ==
    \A u \in Users :
        /\ outbound[u].cookie_calls <= 1
        /\ InLoop(u) => outbound[u].cookie_calls = 1 /\ task[u].cookie = Cookie(u, 1)
        /\ outbound[u].price_cookies # {}
              => outbound[u].cookie_calls = 1 /\ outbound[u].price_cookies = {Cookie(u, 1)}
\* user 1 has sent the price requests of both its selections with the
\* cookies of its single resolution
C18_Witness ==
    /\ task[1].pc = "commit" /\ task[1].i = 2 /\ Len(session[1].hist) = 2
    /\ outbound[1] = [cookie_calls |-> 1, price_cookies |-> {Cookie(1, 1)}]

RECURSIVE CookieCalls(_)
CookieCalls(S) ==
    IF S = {} THEN 0
    ELSE LET u == CHOOSE x \in S : TRUE
         IN  outbound[u].cookie_calls + CookieCalls(S \ {u})
\* the regions of the users this run processes
Regions == {Pincode(u) : u \in DBUser}
\* the user-units that have got past line 195 in this run
Resolved == {u \in Users : task[u].pc \notin {"idle", "sem", "fetch_cookies"}}

AdmittedInOrder ==
    \A u \in Users :
        (task[u].pc = "sem" /\ task'[u].pc # "sem")
            => /\ waiters # <<>> /\ Head(waiters) = u /\ SEM > 0
               /\ \A v \in Users : v < u => task[v].pc # "sem"

\* C20: with more users than slots, every run of worker() eventually ends
\* and every task queued at the gate is eventually admitted, in the order of
\* the queue as slots free up: a run that has started leads to worker()
\* having ended with nothing left in the queue.
C20_FanOutLiveness ==
    /\ (worker_pc = "gather") ~> (/\ worker_pc \in {"returned", "raised"}
                                    /\ waiters = <<>>
                                    /\ \A u \in Users : task[u].pc # "sem")
    /\ [][AdmittedInOrder]_vars
\* with more users than slots, the task created last has been admitted into
\* a slot that a finished task freed, and all slots are taken again
C20_Witness ==
    /\ NumUsers > CONCURRENT_REQUESTS /\ DBUser = Users
    /\ waiters = <<>> /\ task[NumUsers].pc = "fetch_cookies" /\ SEM = 0

\* the position of key k in u's selection list
SelIndex(u, k) == CHOOSE i \in 1..Len(selected_items(u)) : KeyOf(u, i) = k
\* the selections whose price request u's task is waiting for
FetchesInFlight(u) ==
    {i \in 1..Len(selected_items(u)) : task[u].pc = "fetch_price" /\ task[u].i = i}

\* C21: a user-unit works through its selections one after another in load
\* order: the loop moves from a selection only to the next one, at most one
\* price request of the unit is in flight, and the history rows the unit has
\* pending, which its commit appends in that order, follow the order of the
\* selection list and of their fetches.
C21_LoadOrder ==
    [][\A u \in Users :
         /\ task'[u].i # task[u].i => task'[u].i = task[u].i + 1 \/ task'[u].i = 0
         /\ Cardinality(FetchesInFlight(u)) <= 1
         /\ \A m, n \in 1..Len(session'[u].hist) :
               m < n => /\ SelIndex(u, session'[u].hist[m].key)
                             < SelIndex(u, session'[u].hist[n].key)
                        /\ session'[u].hist[m].row.ts < session'[u].hist[n].row.ts
         /\ CommitStep(u) => CommitAppends(u)]_vars
\* user 1 has the rows of its first and second selection pending, in that order
C21_Witness ==
    /\ task[1].pc = "commit" /\ Len(session[1].hist) = 2
    /\ session[1].hist[1].key = KeyOf(1, 1) /\ session[1].hist[2].key = KeyOf(1, 2)
    /\ session[1].hist[1].row.ts < session[1].hist[2].row.ts

\* the key users 1 and 2 both track
SharedKey == KeyOf(1, 1)

\* C22: when users 1 and 2, who track the same item in the same region, are
\* processed in one run and both have committed a snapshot of it, the
\* history holds a row of each and the Items row carries the snapshot of the
\* unit that committed last (the one whose history row is last).
C22_LastWriteWins ==
    (/\ KeyOf(2, 1) = SharedKey /\ cycle = 1
     /\ task[1].pc = "done" /\ task[2].pc = "done"
     /\ Len(ItemsPriceLogger[SharedKey]) = 3)
        => LET last == ItemsPriceLogger[SharedKey][3]
           IN  /\ Items[SharedKey].selling_price = last.selling_price
               /\ Items[SharedKey].discount_percent = last.discount_percent

\* a run of worker() starts
RunStarts == cycle' = cycle + 1

ResetCase ==
    /\ Decided
    /\ dec.last.prev # NoRow
    /\ dec.last.cur.selling_price < dec.last.prev.selling_price
    /\ dec.last.cur.selling_price < dec.max_price

\* C24: when a previous row exists and the new price is below both that
\* row's price and max_price, price_match leaves email_sent_count at
\* max(EMAIL_SENT_COUNT - 1, 0) whatever it was; in every other case it
\* leaves it unchanged or one less.
C24_BudgetReset ==
    Decided =>
        IF ResetCase
        THEN dec.last.out.budget = Max(dec.esc - 1, 0)
        ELSE dec.last.out.budget \in {dec.last.budget, dec.last.budget - 1}
\* a full budget is cut down by the reset to a smaller EMAIL_SENT_COUNT
C24_Witness ==
    /\ ResetCase
    /\ dec.last.budget = MaxBudget
    /\ dec.esc = 1
    /\ dec.last.out.outcome = "notify"
    /\ dec.last.out.budget = 0

\* the unit of u ends by an exception in this step
UnitFails(u) == task[u].pc # "failed" /\ task'[u].pc = "failed"

\* C25: a selection for which the unit has sent a notification has its
\* budget decrement committed by that unit: no unit ends by an exception
\* while a notified selection of its session is still uncommitted, so mails
\* sent and persisted decrements stay equal.
C25_NotifiedIsCommitted ==
    [][\A u \in Users : UnitFails(u) => session[u].sel = {}]_vars

\* the unit of u is at the await of send_mail_async (worker.py:177)
Notifying(u) == task[u].pc = "send_mail"

\* C26: a mail is sent for a selection only when its key has a history row
\* and the fetched snapshot has selling_price < max_price or
\* discount_percent > max_offer, and a selection gets at most one mail per
\* run of worker().
C26_NotificationSound ==
    /\ \A u \in Users :
          Notifying(u) =>
              /\ ItemsPriceLogger[KeyOf(u, task[u].i)] # <<>>
              /\ \/ task[u].cur.selling_price < Thresholds.max_price
                 \/ task[u].cur.discount_percent > Thresholds.max_offer
    /\ \A u \in Users : \A i \in 1..Len(selected_items(u)) : mails[u][i] <= cycle
\* a selection has had its one mail in each of two runs
C26_Witness ==
    /\ cycle = 2
    /\ mails[1][1] = 2
    /\ Len(ItemsPriceLogger[KeyOf(1, 1)]) >= 2

\* C27: the free slots of SEM and the units between acquiring and releasing
\* it always add up to CONCURRENT_REQUESTS, whether units ended by return or
\* by exception, in the first run and in every later one; when every unit
\* has finished all slots are free.
C27_SlotConservation ==
    /\ SEM + Cardinality(InFlight) = CONCURRENT_REQUESTS
    /\ (\A u \in Users : Finished(u)) => SEM = CONCURRENT_REQUESTS
\* the unit of the first run failed (nothing was committed) and the unit of
\* the second run holds a slot with the rest of the gate free
C27_Witness ==
    /\ DBUser = {1}
    /\ cycle = 2
    /\ Untouched
    /\ task[1].pc = "fetch_cookies"
    /\ SEM = CONCURRENT_REQUESTS - 1

\* C28: whatever add-items and delete-item requests the user has made, the
\* user has at most one selection per item_id.
C28_SelectionUnique ==
    app # NoApp =>
        \A t1, t2 \in app.selected_items : t1.item_id = t2.item_id => t1 = t2
====
